---- MODULE Spec2Model ----
(***************************************************************************)
(* A model of gale (src/main.go): parseArgs, fetchGraphQL, formatBytes,    *)
(* normalizeData and run, with the background fetch goroutine and the      *)
(* one-slot resultChan that hands its outcome to the main flow.            *)
(***************************************************************************)
EXTENDS Integers, Sequences, FiniteSets, TLC

VARIABLES
    argv,        \* os.Args[1:], a sequence of tokens
    envToken,    \* os.Getenv("GITHUB_TOKEN")
    cfg,         \* *Config returned by parseArgs
    pc,          \* position of the main flow inside run()/main()
    wpc,         \* position of the goroutine started at main.go:413
    request,     \* what httpClient.Do was given (variables + headers)
    response,    \* what httpClient.Do returned
    fetched,     \* (res, err) that fetchGraphQL returned to the goroutine
    resultChan,  \* chan fetchResult, capacity 1
    result,      \* *GraphQLResponse kept by run after the receive
    output,      \* OutputFile assembled by run
    runErr,      \* error returned by run()
    file,        \* the file named by cfg.Output on disk
    exitCode,    \* process exit status, NotExited while running
    netRequests, \* number of httpClient.Do calls issued
    sends,       \* number of sends on resultChan
    receives,    \* number of receives from resultChan
    trace,       \* observable events of the run, in order
    bytesIn,     \* argument of formatBytes (pure-function specification)
    bytesOut,    \* its result
    nodesIn,     \* argument of normalizeData (pure-function specification)
    nodesOut     \* its result

runVars == <<argv, envToken, cfg, pc, wpc, request, response, fetched, resultChan, result,
             output, runErr, file, exitCode, netRequests, sends, receives, trace>>
pureVars == <<bytesIn, bytesOut, nodesIn, nodesOut>>
vars == <<argv, envToken, cfg, pc, wpc, request, response, fetched, resultChan, result,
          output, runErr, file, exitCode, netRequests, sends, receives, trace,
          bytesIn, bytesOut, nodesIn, nodesOut>>

\* ---------------------------------------------------------------- bounds
MaxArgs == 3        \* longest argument vector of a run
MaxLiveArgs == 1    \* the same, where the run is checked under fairness
MaxFlagArgs == 4    \* longest argument vector given to parseArgs alone
MaxErrors == 2      \* longest GraphQL errors list
MaxReleases == 2    \* longest releases list given to normalizeData alone

NotExited == -1

RECURSIVE SeqsUpTo(_, _)
SeqsUpTo(S, n) ==
    IF n = 0 THEN {<<>>}
    ELSE LET shorter == SeqsUpTo(S, n - 1)
         IN  shorter \cup {Append(s, x) : s \in {t \in shorter : Len(t) = n - 1}, x \in S}

\* ------------------------------------------------------------- parseArgs
\* A command-line token: raw is the string itself; dash is the number of
\* leading '-' (capped at 2, as flag.parseOne looks at no more); body is what
\* follows them up to a '='; hasValue/value are the "=value" part.
Tok(raw, dash, body, hasValue, value) ==
    [raw |-> raw, dash |-> dash, body |-> body, hasValue |-> hasValue, value |-> value]
Word(s) == Tok(s, 0, s, FALSE, "")

\* The tokens argument vectors are built from: those of a whole run, and the
\* larger set given to parseArgs alone.
RunTokens ==
    { Word("cli"), Word("gh"), Word("0"),
      Tok("--count", 2, "count", FALSE, ""),
      Tok("-h", 1, "h", FALSE, ""),
      Tok("--version", 2, "version", FALSE, ""),
      Tok("-x", 1, "x", FALSE, "") }
Tokens ==
    RunTokens \cup
    { Word("20"),
      Tok("-c=5", 1, "c", TRUE, "5"),
      Tok("-q", 1, "q", FALSE, ""),
      Tok("--", 2, "", FALSE, "") }

\* The flags parseArgs registers: name -> the Config field and its type.
FlagDefs ==
    [ count   |-> [field |-> "Count",   type |-> "int"],
      c       |-> [field |-> "Count",   type |-> "int"],
      output  |-> [field |-> "Output",  type |-> "string"],
      o       |-> [field |-> "Output",  type |-> "string"],
      token   |-> [field |-> "Token",   type |-> "string"],
      t       |-> [field |-> "Token",   type |-> "string"],
      quiet   |-> [field |-> "Quiet",   type |-> "bool"],
      q       |-> [field |-> "Quiet",   type |-> "bool"],
      help    |-> [field |-> "Help",    type |-> "bool"],
      h       |-> [field |-> "Help",    type |-> "bool"],
      version |-> [field |-> "Version", type |-> "bool"],
      v       |-> [field |-> "Version", type |-> "bool"] ]

\* strconv.ParseInt on the strings the tokens can supply as a value.
IntTexts == [t \in {"20", "0", "5"} |-> CASE t = "20" -> 20 [] t = "0" -> 0 [] t = "5" -> 5]
\* strconv.ParseBool
BoolTexts == [t \in {"true", "false"} |-> t = "true"]

\* flag.Value.Set for a flag of the given type: [ok, v]
SetValue(type, text) ==
    CASE type = "int"    -> IF text \in DOMAIN IntTexts
                            THEN [ok |-> TRUE, v |-> IntTexts[text]]
                            ELSE [ok |-> FALSE, v |-> 0]
      [] type = "bool"   -> IF text \in DOMAIN BoolTexts
                            THEN [ok |-> TRUE, v |-> BoolTexts[text]]
                            ELSE [ok |-> FALSE, v |-> FALSE]
      [] type = "string" -> [ok |-> TRUE, v |-> text]

\* The Config the flag definitions start from (the defaults of main.go:249-260).
DefaultConfig(env) ==
    [ Owner |-> "", Repo |-> "", Count |-> 10, Output |-> "releases.json",
      Token |-> env, Quiet |-> FALSE, Help |-> FALSE, Version |-> FALSE ]

\* flag.Parse (main.go:263): parseOne repeated until the first non-flag
\* token, a "--", or an error. [ok, cfg, args]: args are flag.Args().
RECURSIVE flagParse(_, _)
flagParse(args, c) ==
    IF args = <<>> THEN [ok |-> TRUE, cfg |-> c, args |-> <<>>]
    ELSE
    LET s == Head(args)
        rest == Tail(args)
        failed == [ok |-> FALSE, cfg |-> c, args |-> rest]
    IN
    IF s.dash = 0 \/ (s.dash = 1 /\ s.body = "" /\ ~s.hasValue)
    THEN [ok |-> TRUE, cfg |-> c, args |-> args]          \* not a flag: stop
    ELSE IF s.dash = 2 /\ s.body = "" /\ ~s.hasValue
    THEN [ok |-> TRUE, cfg |-> c, args |-> rest]          \* "--": stop
    ELSE IF s.body = ""
    THEN failed                                           \* bad flag syntax
    ELSE IF s.body \notin DOMAIN FlagDefs
    THEN failed                                           \* not defined
    ELSE
    LET def == FlagDefs[s.body] IN
    IF def.type = "bool"
    THEN LET set == IF s.hasValue THEN SetValue("bool", s.value)
                    ELSE [ok |-> TRUE, v |-> TRUE]
         IN  IF set.ok
             THEN flagParse(rest, [c EXCEPT ![def.field] = set.v])
             ELSE failed
    ELSE IF s.hasValue
    THEN LET set == SetValue(def.type, s.value)
         IN  IF set.ok
             THEN flagParse(rest, [c EXCEPT ![def.field] = set.v])
             ELSE failed
    ELSE IF rest = <<>>
    THEN failed                                           \* needs an argument
    ELSE LET set == SetValue(def.type, Head(rest).raw)
         IN  IF set.ok
             THEN flagParse(Tail(rest), [c EXCEPT ![def.field] = set.v])
             ELSE failed

\* parseArgs (main.go:246-276). ok = FALSE is flag.ExitOnError's os.Exit(2).
parseArgs(args, env) ==
    LET p == flagParse(args, DefaultConfig(env))
        c0 == [p.cfg EXCEPT !.Owner = "Typeflu", !.Repo = "gale"]
        c1 == IF Len(p.args) > 0 THEN [c0 EXCEPT !.Owner = p.args[1].raw] ELSE c0
        c2 == IF Len(p.args) > 1 THEN [c1 EXCEPT !.Repo = p.args[2].raw] ELSE c1
    IN  [ok |-> p.ok, cfg |-> c2]

\* ----------------------------------------------------------- formatBytes
\* An int64 byte count is held as its base-1024 digits, least significant
\* first, with no leading zero digit (zero is <<0>>): 1536 is <<512, 1>>.
\* A non-negative int64 is below 2^63 = 8 * 1024^6, so it has at most
\* Int64Limbs digits and a seventh digit is at most Int64TopLimb.
unit == 1024
Int64Limbs == 7
Int64TopLimb == 7
Float64Bits == 53
LimbBits == 10
UnitLetters == <<"K", "M", "G", "T", "P", "E">>     \* "KMGTPE"

Pow2(n) == IF n = 0 THEN 1 ELSE LET p[i \in 1..n] == IF i = 1 THEN 2 ELSE 2 * p[i - 1] IN p[n]

\* bytes < unit, bytes / unit, d * unit on the digit sequences
LessThanUnit(n) == Len(n) = 1
DivUnit(n) == IF Len(n) = 1 THEN <<0>> ELSE Tail(n)
MulUnit(d) == <<0>> \o d
IsZero(n) == n = <<0>>

\* n + c for a small carry c
RECURSIVE AddCarry(_, _)
AddCarry(n, c) ==
    IF c = 0 THEN n
    ELSE IF n = <<>> THEN <<c>>
    ELSE LET t == Head(n) + c
         IN  <<t % unit>> \o AddCarry(Tail(n), t \div unit)

BitLen(x) == CHOOSE b \in 1..LimbBits : Pow2(b - 1) <= x /\ x < Pow2(b)

\* float64(bytes): the nearest value with a 53-bit significand, ties to even.
\* The at most 10 bits that are dropped all lie in the lowest digit.
Float64Of(n) ==
    LET bits == LimbBits * (Len(n) - 1) + BitLen(n[Len(n)])
        s    == bits - Float64Bits
    IN  IF IsZero(n) \/ s <= 0 THEN n
        ELSE LET m    == Pow2(s)
                 q    == n[1] \div m
                 r    == n[1] % m
                 odd  == IF s = LimbBits THEN n[2] % 2 = 1 ELSE q % 2 = 1
                 up   == IF r * 2 > m \/ (r * 2 = m /\ odd) THEN 1 ELSE 0
                 low  == (q + up) * m
             IN  <<low % unit>> \o AddCarry(Tail(n), low \div unit)

\* The digits of f * 10, and the carry out of the top digit.
RECURSIVE Times10(_, _)
Times10(f, c) ==
    IF f = <<>> THEN [digits |-> <<>>, carry |-> c]
    ELSE LET t == Head(f) * 10 + c
             r == Times10(Tail(f), t \div unit)
         IN  [digits |-> <<t % unit>> \o r.digits, carry |-> r.carry]

\* The value of a short digit sequence (the integer part of a quotient).
RECURSIVE IntVal(_)
IntVal(n) == IF n = <<>> THEN 0 ELSE Head(n) + unit * IntVal(Tail(n))

\* A fraction f / 1024^Len(f) compared with one half: -1, 0 or 1.
CmpHalf(f) ==
    IF f = <<>> THEN -1
    ELSE LET top == f[Len(f)]
             lowZero == \A i \in 1..(Len(f) - 1) : f[i] = 0
         IN  IF top > unit \div 2 THEN 1
             ELSE IF top < unit \div 2 THEN -1
             ELSE IF lowZero THEN 0 ELSE 1

\* fmt.Sprintf("%.1f", x / 1024^places) for x held as digits: the tenths of
\* the result. strconv rounds the exact decimal expansion, ties to even.
SprintfTenths(x, places) ==
    LET frac  == SubSeq(x, 1, places)
        whole == IntVal(SubSeq(x, places + 1, Len(x)))
        m     == Times10(frac, 0)
        half  == CmpHalf(m.digits)
        up    == IF half > 0 \/ (half = 0 /\ m.carry % 2 = 1) THEN 1 ELSE 0
    IN  whole * 10 + m.carry + up

\* The loop written with n > unit in place of n >= unit.
RECURSIVE formatLoopGreater(_, _, _)
formatLoopGreater(n, div, exp) ==
    IF Len(n) > 2 \/ (Len(n) = 2 /\ (n[2] > 1 \/ n[1] > 0))
    THEN formatLoopGreater(DivUnit(n), MulUnit(div), exp + 1)
    ELSE [div |-> div, exp |-> exp]

\* The loop of main.go:333-337: div and exp when n drops below unit.
\* div = 1024^(exp+1) is held as the count of its trailing zero digits.
RECURSIVE formatLoop(_, _, _)
formatLoop(n, div, exp) ==
    IF ~LessThanUnit(n)
    THEN formatLoop(DivUnit(n), MulUnit(div), exp + 1)
    ELSE [div |-> div, exp |-> exp]

\* formatBytes (main.go:325-339). The string is held by its parts:
\* "%d B" as [fmt, n], "%.1f %cB" as [fmt, whole, tenth, letter]; indexing
\* "KMGTPE" out of range is Go's run-time panic.
formatBytes(bytes) ==
    IF IsZero(bytes) THEN [fmt |-> "0 B"]
    ELSE IF LessThanUnit(bytes) THEN [fmt |-> "%d B", n |-> bytes[1]]
    ELSE LET l == formatLoop(DivUnit(bytes), <<0, 1>>, 0)
             t == SprintfTenths(Float64Of(bytes), Len(l.div) - 1)
         IN  IF l.exp + 1 > Len(UnitLetters)
             THEN [fmt |-> "panic: index out of range"]
             ELSE [fmt |-> "%.1f %cB", whole |-> t \div 10, tenth |-> t % 10,
                   letter |-> UnitLetters[l.exp + 1]]

\* The byte counts the specification of formatBytes is run on: every digit
\* sequence over LimbValues with a non-zero top digit that fits an int64.
LimbValues == {0, 1, 256, 512, 1023}
TopValues == {1, 5, 7, 8, 500, 512, 1023}
ByteCounts ==
    LET all == { s \o <<t>> : s \in SeqsUpTo(LimbValues, Int64Limbs - 1), t \in TopValues }
    IN  {<<0>>} \cup { n \in all : Len(n) < Int64Limbs \/ n[Int64Limbs] <= Int64TopLimb }

\* --------------------------------------------------------- normalizeData
\* A Go pointer or slice header is nil or holds a value.
Nil == [isNil |-> TRUE]
Ptr(v) == [isNil |-> FALSE, v |-> v]
NilSlice == [isNil |-> TRUE, elems |-> <<>>]
Slice(s) == [isNil |-> FALSE, elems |-> s]
\* make([]T, n) filled by the loop that follows it: never a nil slice
MakeSlice(s) == [isNil |-> FALSE, elems |-> s]
len(sl) == Len(sl.elems)

\* The name chosen without the fallback to the literal.
releaseNameTagOnly(node) ==
    IF node.Name = "" THEN node.TagName ELSE node.Name

\* The name chosen at main.go:344-350.
releaseName(node) ==
    LET name == node.Name
        name1 == IF name = "" THEN node.TagName ELSE name
    IN  IF name1 = "" THEN "Unnamed Release" ELSE name1

\* main.go:354-361
normalizeAsset(asset) ==
    [ ID |-> asset.ID, Name |-> asset.Name, Size |-> asset.Size,
      SizeFormatted |-> formatBytes(asset.Size),
      ContentType |-> asset.ContentType, DownloadURL |-> asset.DownloadURL ]

\* The assets built by append onto a nil slice in place of make.
normalizeAssetsAppend(nodes) ==
    IF len(nodes) = 0 THEN NilSlice
    ELSE Slice([j \in 1..len(nodes) |-> normalizeAsset(nodes.elems[j])])

\* main.go:352-362
normalizeAssets(nodes) ==
    MakeSlice([j \in 1..len(nodes) |-> normalizeAsset(nodes.elems[j])])

\* main.go:343-375, one iteration of the loop over nodes
normalizeRelease(node) ==
    [ ID |-> node.ID, Name |-> releaseName(node), Version |-> node.TagName,
      PublishedAt |-> node.PublishedAt, IsPrerelease |-> node.IsPrerelease,
      IsDraft |-> node.IsDraft, URL |-> node.URL, Description |-> node.Description,
      DownloadCount |-> node.ReleaseAssets.TotalCount,
      Assets |-> normalizeAssets(node.ReleaseAssets.Nodes) ]

\* normalizeData (main.go:341-378)
normalizeData(nodes) ==
    MakeSlice([i \in 1..len(nodes) |-> normalizeRelease(nodes.elems[i])])

\* The raw releases the specification of normalizeData is run on.
Asset1 == [ ID |-> "asset1", Name |-> "asset1.zip", Size |-> <<0, 1>>,
            DownloadURL |-> "https://example/asset1.zip", ContentType |-> "application/zip" ]
Asset2 == [ ID |-> "asset2", Name |-> "notes.txt", Size |-> <<500>>,
            DownloadURL |-> "https://example/notes.txt", ContentType |-> "text/plain" ]
AssetPages ==
    { [TotalCount |-> 0,  Nodes |-> NilSlice],
      [TotalCount |-> 0,  Nodes |-> Slice(<<>>)],
      [TotalCount |-> 2,  Nodes |-> Slice(<<Asset1, Asset2>>)],
      [TotalCount |-> 60, Nodes |-> Slice(<<Asset2, Asset1>>)] }
ReleaseNodes ==
    { [ ID |-> id, Name |-> nm[1], TagName |-> nm[2],
        PublishedAt |-> "2025-01-01T00:00:00Z", IsPrerelease |-> FALSE, IsDraft |-> FALSE,
        URL |-> "https://example/release", Description |-> "notes", ReleaseAssets |-> a ]
      : id \in {"1", "2"},
        nm \in {<<"Release", "v4.4.0">>, <<"", "v4.4.1">>, <<"", "">>, <<"Release", "">>},
        a \in AssetPages }
ReleaseLists ==
    {NilSlice} \cup {Slice(s) : s \in SeqsUpTo(ReleaseNodes, MaxReleases)}

\* ---------------------------------------------------------- fetchGraphQL
StatusCodes == {200, 399, 400, 404}
Messages == {"Could not resolve to a Repository", "API rate limit exceeded"}
ErrorLists == { [i \in 1..Len(s) |-> [Message |-> s[i]]] : s \in SeqsUpTo(Messages, MaxErrors) }

Node1 == [ ID |-> "1", Name |-> "Release", TagName |-> "v4.4.0",
           PublishedAt |-> "2025-01-01T00:00:00Z", IsPrerelease |-> FALSE, IsDraft |-> FALSE,
           URL |-> "https://example/release", Description |-> "notes",
           ReleaseAssets |-> [TotalCount |-> 1, Nodes |-> Slice(<<Asset1>>)] ]
Node2 == [ ID |-> "2", Name |-> "", TagName |-> "v4.4.1",
           PublishedAt |-> "2025-01-02T00:00:00Z", IsPrerelease |-> TRUE, IsDraft |-> FALSE,
           URL |-> "https://example/release2", Description |-> "",
           ReleaseAssets |-> [TotalCount |-> 0, Nodes |-> NilSlice] ]

\* The "data" member of a response body: null, {"repository": null}, or a
\* repository with its releases.
DataValues ==
    { Nil, Ptr([Repository |-> Nil]),
      Ptr([Repository |-> Ptr([Releases |-> [TotalCount |-> 0, Nodes |-> NilSlice]])]),
      Ptr([Repository |-> Ptr([Releases |-> [TotalCount |-> 7, Nodes |-> Slice(<<Node1, Node2>>)]])]) }

\* A response body: bytes that are not JSON of the expected shape, or JSON
\* holding "errors" and "data".
MalformedBody == [valid |-> FALSE]
Bodies ==
    {MalformedBody} \cup
    { [valid |-> TRUE, errors |-> e, data |-> d] : e \in ErrorLists, d \in DataValues }

\* What httpClient.Do can return (main.go:300): an error (no connection, or
\* the 30 s Timeout of main.go:243), or a response.
Outcomes ==
    { [kind |-> "transport"] } \cup
    { [kind |-> "response", StatusCode |-> c, Body |-> b] : c \in StatusCodes, b \in Bodies }

\* json.NewDecoder(res.Body).Decode(&result) (main.go:317-320)
Decode(body) ==
    IF body.valid
    THEN [ok |-> TRUE, result |-> [Data |-> body.data, Errors |-> body.errors]]
    ELSE [ok |-> FALSE, result |-> [Data |-> Nil, Errors |-> <<>>]]

\* fetchGraphQL from the return of httpClient.Do on (main.go:300-322): (res, err)
fetchGraphQL(o) ==
    IF o.kind = "transport"
    THEN [response |-> Nil, err |-> Ptr([kind |-> "failed to send request"])]
    ELSE IF o.StatusCode >= 400
    THEN [response |-> Nil,
          err |-> Ptr([kind |-> "responded with status", status |-> o.StatusCode, body |-> o.Body])]
    ELSE LET d == Decode(o.Body)
         IN  IF ~d.ok
             THEN [response |-> Nil, err |-> Ptr([kind |-> "failed to decode"])]
             ELSE [response |-> Ptr(d.result), err |-> Nil]

\* The checks of run with the repository looked at before the errors list.
runCheckDataFirst(resultData) ==
    IF ~resultData.err.isNil THEN resultData.err
    ELSE LET res == resultData.response.v
         IN  IF res.Data.isNil \/ res.Data.v.Repository.isNil
             THEN Ptr([kind |-> "repository not found or access denied"])
             ELSE IF Len(res.Errors) > 0
             THEN Ptr([kind |-> "GraphQL returned errors",
                       messages |-> [i \in 1..Len(res.Errors) |-> res.Errors[i].Message]])
             ELSE Nil

\* run after the receive (main.go:426-441): the error it returns, or Nil.
runCheck(resultData) ==
    IF ~resultData.err.isNil THEN resultData.err
    ELSE LET res == resultData.response.v
         IN  IF Len(res.Errors) > 0
             THEN Ptr([kind |-> "GraphQL returned errors",
                       messages |-> [i \in 1..Len(res.Errors) |-> res.Errors[i].Message]])
             ELSE IF res.Data.isNil \/ res.Data.v.Repository.isNil
             THEN Ptr([kind |-> "repository not found or access denied"])
             ELSE Nil

\* The early returns with the version one left out.
earlyExitHelpOnly(c) ==
    IF c.Help THEN "help" ELSE "none"

\* run, main.go:383-392: which early return is taken
earlyExit(c) ==
    IF c.Help THEN "help" ELSE IF c.Version THEN "version" ELSE "none"

\* The OutputFile assembled at main.go:443-469 (FetchedAt is the clock's).
assemble(c, repoData) ==
    LET releases == normalizeData(repoData.Releases.Nodes)
    IN  [ Metadata |-> [FetchedBy |-> "gale v4.5.0", Author |-> "Saksham Singla (@Typeflu)",
                        URL |-> "https://github.com/Typeflu"],
          Repository |-> [Owner |-> c.Owner, Repo |-> c.Repo,
                          TotalReleases |-> repoData.Releases.TotalCount,
                          FetchedReleases |-> len(releases)],
          Releases |-> releases ]

\* ------------------------------------------------------------ run, main
ChanCap == 1    \* make(chan fetchResult, 1)

\* The file named by cfg.Output: absent, holding what an earlier run left
\* ("old"), created or truncated but not completely written ("partial"), or
\* holding this run's document ("written").
FileAbsent == [state |-> "absent", content |-> Nil]
FileOld == [state |-> "old", content |-> Nil]
FilePartial == [state |-> "partial", content |-> Nil]
FileWritten(doc) == [state |-> "written", content |-> Ptr(doc)]

\* What the operating system can answer to main.go:471-481: filepath.Abs
\* fails (no working directory); os.WriteFile fails to open the file; it
\* opens (creates or truncates) the file and then fails to write all of it;
\* or it succeeds. json.MarshalIndent cannot fail on an OutputFile.
WriteOutcomes == {"abs failed", "open failed", "write failed", "ok"}

RunInit ==
    /\ envToken \in {"", "ghp_token"}
    /\ cfg = Nil
    /\ pc = "parseArgs"
    /\ wpc = "idle"
    /\ request = Nil
    /\ response = Nil
    /\ fetched = Nil
    /\ resultChan = <<>>
    /\ result = Nil
    /\ output = Nil
    /\ runErr = Nil
    /\ file \in {FileAbsent, FileOld}
    /\ exitCode = NotExited
    /\ netRequests = 0
    /\ sends = 0
    /\ receives = 0
    /\ trace = <<>>

PureIdle ==
    /\ bytesIn = Nil
    /\ bytesOut = Nil
    /\ nodesIn = Nil
    /\ nodesOut = Nil

Init ==
    /\ argv \in SeqsUpTo(RunTokens, MaxArgs)
    /\ RunInit
    /\ PureIdle

\* run, main.go:381-392: parseArgs, then the help and version returns.
\* A flag error ends the process inside flag.Parse with status 2.
M_ParseArgs ==
    /\ pc = "parseArgs"
    /\ LET p == parseArgs(argv, envToken)
       IN  IF ~p.ok
           THEN /\ pc' = "exited"
                /\ exitCode' = 2
                /\ trace' = Append(trace, "usage")
                /\ cfg' = cfg
           ELSE /\ cfg' = Ptr(p.cfg)
                /\ exitCode' = exitCode
                /\ IF earlyExit(p.cfg) = "none"
                   THEN /\ pc' = "spawn"
                        /\ trace' = Append(trace, "resolve")
                   ELSE /\ pc' = "returned"
                        /\ trace' = trace \o <<"resolve", earlyExit(p.cfg)>>
    /\ UNCHANGED <<argv, envToken, wpc, request, response, fetched, resultChan, result,
                   output, runErr, file, netRequests, sends, receives>>
    /\ UNCHANGED pureVars

\* run, main.go:394-421: banner, warning, spinner, make(chan), go func()
M_Spawn ==
    /\ pc = "spawn"
    /\ pc' = "receive"
    /\ wpc' = "fetch"
    /\ UNCHANGED <<argv, envToken, cfg, request, response, fetched, resultChan, result,
                   output, runErr, file, exitCode, netRequests, sends, receives, trace>>
    /\ UNCHANGED pureVars

\* The goroutine, main.go:414-419 and fetchGraphQL up to httpClient.Do
\* (main.go:279-300): the one request is sent.
W_Do ==
    /\ wpc = "fetch"
    /\ request' = Ptr([ owner |-> cfg.v.Owner, repo |-> cfg.v.Repo, first |-> cfg.v.Count,
                        authorization |-> IF cfg.v.Token # "" THEN Ptr(cfg.v.Token) ELSE Nil ])
    /\ netRequests' = netRequests + 1
    /\ trace' = Append(trace, "request")
    /\ wpc' = "inflight"
    /\ UNCHANGED <<argv, envToken, cfg, pc, response, fetched, resultChan, result,
                   output, runErr, file, exitCode, sends, receives>>
    /\ UNCHANGED pureVars

\* The goroutine trying again after a transport failure.
W_ReturnRetry ==
    /\ wpc = "inflight"
    /\ \E o \in Outcomes :
          /\ response' = Ptr(o)
          /\ fetched' = Ptr(fetchGraphQL(o))
          /\ wpc' = IF o.kind = "transport" THEN "fetch" ELSE "send"
    /\ UNCHANGED <<argv, envToken, cfg, pc, request, resultChan, result,
                   output, runErr, file, exitCode, netRequests, sends, receives, trace>>
    /\ UNCHANGED pureVars

\* httpClient.Do returns and fetchGraphQL runs to its return (main.go:300-322).
W_Return ==
    /\ wpc = "inflight"
    /\ \E o \in Outcomes :
          /\ response' = Ptr(o)
          /\ fetched' = Ptr(fetchGraphQL(o))
    /\ wpc' = "send"
    /\ UNCHANGED <<argv, envToken, cfg, pc, request, resultChan, result,
                   output, runErr, file, exitCode, netRequests, sends, receives, trace>>
    /\ UNCHANGED pureVars

\* The goroutine sending a response only, and nothing when fetchGraphQL failed.
W_SendResponseOnly ==
    /\ wpc = "send"
    /\ Len(resultChan) < ChanCap
    /\ IF fetched.v.err.isNil
       THEN /\ resultChan' = Append(resultChan, fetched.v)
            /\ sends' = sends + 1
       ELSE UNCHANGED <<resultChan, sends>>
    /\ wpc' = "done"
    /\ UNCHANGED <<argv, envToken, cfg, pc, request, response, fetched, result,
                   output, runErr, file, exitCode, netRequests, receives, trace>>
    /\ UNCHANGED pureVars

\* resultChan <- fetchResult{...} (main.go:420); a send blocks while the
\* buffer is full.
W_Send ==
    /\ wpc = "send"
    /\ Len(resultChan) < ChanCap
    /\ resultChan' = Append(resultChan, fetched.v)
    /\ sends' = sends + 1
    /\ wpc' = "done"
    /\ UNCHANGED <<argv, envToken, cfg, pc, request, response, fetched, result,
                   output, runErr, file, exitCode, netRequests, receives, trace>>
    /\ UNCHANGED pureVars

\* resultData := <-resultChan and the checks on it (main.go:423-441)
M_Receive ==
    /\ pc = "receive"
    /\ resultChan # <<>>
    /\ LET resultData == Head(resultChan)
           err == runCheck(resultData)
       IN  /\ resultChan' = Tail(resultChan)
           /\ receives' = receives + 1
           /\ trace' = Append(trace, "outcome")
           /\ runErr' = err
           /\ result' = resultData.response
           /\ pc' = IF err.isNil THEN "normalize" ELSE "returned"
    /\ UNCHANGED <<argv, envToken, cfg, wpc, request, response, fetched,
                   output, file, exitCode, netRequests, sends>>
    /\ UNCHANGED pureVars

\* normalizeData and the OutputFile (main.go:443-469)
M_Normalize ==
    /\ pc = "normalize"
    /\ output' = Ptr(assemble(cfg.v, result.v.Data.v.Repository.v))
    /\ trace' = Append(trace, "normalize")
    /\ pc' = "write"
    /\ UNCHANGED <<argv, envToken, cfg, wpc, request, response, fetched, resultChan, result,
                   runErr, file, exitCode, netRequests, sends, receives>>
    /\ UNCHANGED pureVars

\* filepath.Abs, json.MarshalIndent, os.WriteFile (main.go:471-491)
M_Write ==
    /\ pc = "write"
    /\ \E w \in WriteOutcomes :
          /\ file' = CASE w = "write failed" -> FilePartial
                       [] w = "ok" -> FileWritten(output.v)
                       [] OTHER -> file
          /\ runErr' = CASE w = "abs failed" -> Ptr([kind |-> "could not resolve path"])
                         [] w = "ok" -> Nil
                         [] OTHER -> Ptr([kind |-> "failed to write to file"])
          /\ trace' = IF w = "abs failed" THEN trace ELSE Append(trace, "write")
    /\ pc' = "returned"
    /\ UNCHANGED <<argv, envToken, cfg, wpc, request, response, fetched, resultChan, result,
                   output, exitCode, netRequests, sends, receives>>
    /\ UNCHANGED pureVars

\* main (main.go:494-499)
M_Exit ==
    /\ pc = "returned"
    /\ exitCode' = IF runErr.isNil THEN 0 ELSE 1
    /\ pc' = "exited"
    /\ UNCHANGED <<argv, envToken, cfg, wpc, request, response, fetched, resultChan, result,
                   output, runErr, file, netRequests, sends, receives, trace>>
    /\ UNCHANGED pureVars

Next ==
    \/ M_ParseArgs
    \/ M_Spawn
    \/ W_Do
    \/ W_Return
    \/ W_Send
    \/ M_Receive
    \/ M_Normalize
    \/ M_Write
    \/ M_Exit

Spec == Init /\ [][Next]_vars

\* The program's scheduling: a runnable goroutine is eventually run, and the
\* 30 s Timeout of httpClient makes httpClient.Do return.
LiveInit ==
    /\ argv \in SeqsUpTo(RunTokens, MaxLiveArgs)
    /\ RunInit
    /\ PureIdle

LiveSpec ==
    /\ LiveInit
    /\ [][Next]_vars
    /\ WF_vars(M_ParseArgs) /\ WF_vars(M_Spawn) /\ WF_vars(W_Do) /\ WF_vars(W_Return)
    /\ WF_vars(W_Send) /\ WF_vars(M_Receive) /\ WF_vars(M_Normalize)
    /\ WF_vars(M_Write) /\ WF_vars(M_Exit)

\* ------------------------------------- parseArgs, formatBytes, normalizeData alone
RunIdle ==
    /\ argv = <<>>
    /\ envToken = ""
    /\ cfg = Nil
    /\ pc = "idle"
    /\ wpc = "idle"
    /\ request = Nil
    /\ response = Nil
    /\ fetched = Nil
    /\ resultChan = <<>>
    /\ result = Nil
    /\ output = Nil
    /\ runErr = Nil
    /\ file = FileAbsent
    /\ exitCode = NotExited
    /\ netRequests = 0
    /\ sends = 0
    /\ receives = 0
    /\ trace = <<>>

ArgsInit ==
    /\ argv \in SeqsUpTo(Tokens, MaxFlagArgs)
    /\ RunInit
    /\ envToken = ""
    /\ file = FileAbsent
    /\ PureIdle

SpecArgs == ArgsInit /\ [][M_ParseArgs \/ M_Exit]_vars

FormatInit ==
    /\ RunIdle
    /\ bytesIn \in ByteCounts
    /\ bytesOut = Nil
    /\ nodesIn = Nil
    /\ nodesOut = Nil

F_FormatBytes ==
    /\ bytesOut = Nil
    /\ bytesOut' = Ptr(formatBytes(bytesIn))
    /\ UNCHANGED <<bytesIn, nodesIn, nodesOut>>
    /\ UNCHANGED runVars

SpecFormat == FormatInit /\ [][F_FormatBytes]_vars

NormalizeInit ==
    /\ RunIdle
    /\ bytesIn = Nil
    /\ bytesOut = Nil
    /\ nodesIn \in ReleaseLists
    /\ nodesOut = Nil

N_NormalizeData ==
    /\ nodesOut = Nil
    /\ nodesOut' = Ptr(normalizeData(nodesIn))
    /\ UNCHANGED <<bytesIn, bytesOut, nodesIn>>
    /\ UNCHANGED runVars

SpecNormalize == NormalizeInit /\ [][N_NormalizeData]_vars

\* ================================================================ claims
Unmodified(f) == f.state \in {"absent", "old"}
IsPrefix(a, b) == Len(a) <= Len(b) /\ SubSeq(b, 1, Len(a)) = a
FullOrder == <<"resolve", "request", "outcome", "normalize", "write">>

\* C1: a run that ends with an error of kinds (b)-(g) leaves the output file
\* neither created nor modified and exits with status 1, and the file holds
\* this run's document only when no stage failed.
C1_NoPartialOutput ==
    /\ (pc = "exited" /\ ~runErr.isNil) => (exitCode = 1 /\ Unmodified(file))
    /\ file.state = "written" => runErr.isNil

\* C2: at most one remote request is ever issued and exactly one once the
\* outcome has been received; the file is untouched until the outcome has
\* been received; the worker is finished (no further request can follow) once
\* it has been received; and the events of a run are, in order, a prefix of
\* resolve, request, outcome, normalize, write.
C2_OneRequestInOrder ==
    /\ netRequests <= 1
    /\ receives >= 1 => (netRequests = 1 /\ wpc = "done")
    /\ pc \in {"normalize", "write"} => receives = 1
    /\ ~Unmodified(file) => receives = 1
    /\ \/ IsPrefix(trace, FullOrder)
       \/ trace \in {<<"usage">>, <<"resolve", "help">>, <<"resolve", "version">>}
    /\ (pc = "exited" /\ exitCode = 0 /\ earlyExit(cfg.v) = "none") => trace = FullOrder

C2_Witness ==
    pc = "exited" /\ trace = FullOrder /\ file.state = "written" /\ netRequests = 1

\* C3: the outcome of the fetch is classified by the first that applies of:
\* transport failure; status >= 400 (carrying status and undecoded body);
\* malformed body; non-empty errors (every message, in order, whatever data
\* holds); null data or null repository; success with the releases.
C3_Classification ==
    receives = 1 =>
        LET o == response.v IN
        IF o.kind = "transport"
        THEN runErr = Ptr([kind |-> "failed to send request"])
        ELSE IF o.StatusCode >= 400
        THEN runErr = Ptr([kind |-> "responded with status",
                           status |-> o.StatusCode, body |-> o.Body])
        ELSE IF ~o.Body.valid
        THEN runErr = Ptr([kind |-> "failed to decode"])
        ELSE IF o.Body.errors # <<>>
        THEN /\ ~runErr.isNil
             /\ runErr.v.kind = "GraphQL returned errors"
             /\ Len(runErr.v.messages) = Len(o.Body.errors)
             /\ \A i \in 1..Len(o.Body.errors) :
                    runErr.v.messages[i] = o.Body.errors[i].Message
        ELSE IF o.Body.data.isNil \/ o.Body.data.v.Repository.isNil
        THEN runErr = Ptr([kind |-> "repository not found or access denied"])
        ELSE /\ pc \in {"normalize", "write"} => runErr.isNil
             /\ pc = "exited" => exitCode = IF runErr.isNil THEN 0 ELSE 1
             /\ result.v.Data.v.Repository.v.Releases = o.Body.data.v.Repository.v.Releases
             /\ ~output.isNil =>
                   output.v.Repository.TotalReleases
                       = o.Body.data.v.Repository.v.Releases.TotalCount

C3_Witness ==
    /\ receives = 1
    /\ response.v.kind = "response"
    /\ response.v.StatusCode = 200
    /\ response.v.Body.valid
    /\ Len(response.v.Body.errors) = 2
    /\ ~response.v.Body.data.isNil
    /\ ~response.v.Body.data.v.Repository.isNil
    /\ runErr.v.kind = "GraphQL returned errors"

\* C4: parseArgs gives the Config that reading the flags wherever they stand
\* gives: owner and repo are the first and second positional, and every flag
\* given is applied.
RECURSIVE flagsAnywhere(_, _, _)
flagsAnywhere(args, c, pos) ==
    IF args = <<>>
    THEN [ ok |-> Len(pos) <= 2,
           cfg |-> [c EXCEPT !.Owner = IF Len(pos) > 0 THEN pos[1] ELSE "Typeflu",
                             !.Repo = IF Len(pos) > 1 THEN pos[2] ELSE "gale"] ]
    ELSE LET s == Head(args)
             bad == [ok |-> FALSE, cfg |-> c]
         IN  IF s.dash = 0 THEN flagsAnywhere(Tail(args), c, Append(pos, s.raw))
             ELSE IF s.body \notin DOMAIN FlagDefs THEN bad
             ELSE LET def == FlagDefs[s.body] IN
                  IF def.type = "bool" /\ ~s.hasValue
                  THEN flagsAnywhere(Tail(args), [c EXCEPT ![def.field] = TRUE], pos)
                  ELSE IF s.hasValue
                  THEN LET set == SetValue(def.type, s.value)
                       IN  IF set.ok
                           THEN flagsAnywhere(Tail(args), [c EXCEPT ![def.field] = set.v], pos)
                           ELSE bad
                  ELSE IF Tail(args) = <<>> THEN bad
                  ELSE LET set == SetValue(def.type, args[2].raw)
                       IN  IF set.ok
                           THEN flagsAnywhere(Tail(Tail(args)),
                                              [c EXCEPT ![def.field] = set.v], pos)
                           ELSE bad

C4_FlagsAnywhere ==
    ~cfg.isNil =>
        LET want == flagsAnywhere(argv, DefaultConfig(envToken), <<>>)
        IN  want.ok => cfg.v = want.cfg

\* C5: with help or version set the run returns without error before the
\* fetch stage: no goroutine, no request, no write, exit status 0; help is
\* the one handled when both are set.
C5_HelpVersionBeforeFetch ==
    (~cfg.isNil /\ (cfg.v.Help \/ cfg.v.Version)) =>
        /\ pc \in {"returned", "exited"}
        /\ wpc = "idle"
        /\ netRequests = 0
        /\ Unmodified(file)
        /\ runErr.isNil
        /\ pc = "exited" => exitCode = 0
        /\ trace = <<"resolve", IF cfg.v.Help THEN "help" ELSE "version">>

C5_Witness ==
    /\ pc = "exited"
    /\ ~cfg.isNil
    /\ cfg.v.Help
    /\ cfg.v.Version
    /\ cfg.v.Owner = "cli"
    /\ exitCode = 0

\* C6: the "first" variable of the request is a positive integer.
C6_CountPositive ==
    ~request.isNil => request.v.first > 0

\* C7: normalizeData keeps the length and the order of the releases and of
\* each release's assets, and every release's assets is a non-nil sequence.
C7_LengthOrderAssets ==
    ~nodesOut.isNil =>
        LET out == nodesOut.v IN
        /\ len(out) = len(nodesIn)
        /\ \A i \in 1..len(nodesIn) :
              LET n == nodesIn.elems[i]
                  r == out.elems[i]
              IN  /\ r.ID = n.ID
                  /\ r.Version = n.TagName
                  /\ ~r.Assets.isNil
                  /\ len(r.Assets) = len(n.ReleaseAssets.Nodes)
                  /\ \A j \in 1..len(r.Assets) :
                        /\ r.Assets.elems[j].ID = n.ReleaseAssets.Nodes.elems[j].ID
                        /\ r.Assets.elems[j].Name = n.ReleaseAssets.Nodes.elems[j].Name
                        /\ r.Assets.elems[j].Size = n.ReleaseAssets.Nodes.elems[j].Size

C7_Witness ==
    /\ ~nodesOut.isNil
    /\ len(nodesIn) = 2
    /\ nodesIn.elems[1].ID = "2"
    /\ nodesIn.elems[1].ReleaseAssets.Nodes.isNil
    /\ nodesIn.elems[2].ID = "1"
    /\ len(nodesIn.elems[2].ReleaseAssets.Nodes) = 2
    /\ len(nodesOut.v) = 2

\* C8: a normalized release's name is never empty: it is the raw name if that
\* is not empty, else the tag name if that is not empty, else "Unnamed Release".
C8_NameFallback ==
    ~nodesOut.isNil =>
        \A i \in 1..len(nodesIn) :
            LET n == nodesIn.elems[i]
                r == nodesOut.v.elems[i]
            IN  /\ r.Name # ""
                /\ n.Name # "" => r.Name = n.Name
                /\ (n.Name = "" /\ n.TagName # "") => r.Name = n.TagName
                /\ (n.Name = "" /\ n.TagName = "") => r.Name = "Unnamed Release"

C8_Witness ==
    /\ ~nodesOut.isNil
    /\ len(nodesIn) = 2
    /\ nodesIn.elems[1].Name = "" /\ nodesIn.elems[1].TagName = ""
    /\ nodesOut.v.elems[1].Name = "Unnamed Release"
    /\ nodesIn.elems[2].Name = "" /\ nodesIn.elems[2].TagName = "v4.4.1"
    /\ nodesOut.v.elems[2].Name = "v4.4.1"

\* C9: formatBytes gives "0 B" for 0, "<n> B" below 1024, and otherwise one
\* decimal digit of n / 1024^d and the letter d-1 of KMGTPE, d the number of
\* divisions by 1024 that bring n below 1024; d-1 is always within 0..5.
RECURSIVE Divisions(_)
Divisions(n) == IF LessThanUnit(n) THEN 0 ELSE 1 + Divisions(DivUnit(n))

\* floor(10 * n / 1024^d) from the digits of n
FloorTenths(n, d) ==
    LET m == Times10(SubSeq(n, 1, d), 0)
    IN  10 * IntVal(SubSeq(n, d + 1, Len(n))) + m.carry

C9_FormatBytes ==
    ~bytesOut.isNil =>
        LET n == bytesIn
            r == bytesOut.v
            d == Divisions(n)
        IN  /\ IsZero(n) => r = [fmt |-> "0 B"]
            /\ (~IsZero(n) /\ LessThanUnit(n)) => r = [fmt |-> "%d B", n |-> n[1]]
            /\ ~LessThanUnit(n) =>
                  /\ r.fmt = "%.1f %cB"
                  /\ d - 1 \in 0..5
                  /\ r.letter = UnitLetters[d]
                  /\ r.tenth \in 0..9
                  /\ 10 * r.whole + r.tenth \in {FloorTenths(n, d), FloorTenths(n, d) + 1}
            /\ n = <<500>> => r = [fmt |-> "%d B", n |-> 500]
            /\ n = <<512, 1>> =>
                  r = [fmt |-> "%.1f %cB", whole |-> 1, tenth |-> 5, letter |-> "K"]
            /\ n = <<0, 1>> =>
                  r = [fmt |-> "%.1f %cB", whole |-> 1, tenth |-> 0, letter |-> "K"]
            /\ n = <<0, 512, 1>> =>
                  r = [fmt |-> "%.1f %cB", whole |-> 1, tenth |-> 5, letter |-> "M"]
            /\ n = <<0, 0, 512, 1>> =>
                  r = [fmt |-> "%.1f %cB", whole |-> 1, tenth |-> 5, letter |-> "G"]

C9_Witness ==
    /\ ~bytesOut.isNil
    /\ bytesIn = <<1023, 1023, 1023, 1023, 1023, 1023, 7>>
    /\ bytesOut.v = [fmt |-> "%.1f %cB", whole |-> 8, tenth |-> 0, letter |-> "E"]

\* C10: the worker sends exactly one outcome on the one-slot channel and the
\* send never has to wait; the main flow goes on only after receiving it, and
\* receives one; and once fetchGraphQL has returned, the main flow receives
\* the outcome and the process exits with status 0 or 1.
C10_Handoff ==
    /\ [](/\ Len(resultChan) <= ChanCap
          /\ sends <= 1
          /\ receives <= sends
          /\ wpc = "send" => Len(resultChan) < ChanCap
          /\ wpc = "done" => sends = 1
          /\ pc \in {"normalize", "write"} => receives = 1)
    /\ (wpc = "send") ~> (pc = "exited" /\ sends = 1 /\ receives = 1 /\ exitCode \in {0, 1})

C10_Witness ==
    /\ pc = "exited"
    /\ receives = 1
    /\ sends = 1
    /\ ~fetched.v.err.isNil
    /\ exitCode = 1

====
